---------------------------- MODULE Spec2Model ----------------------------
(***************************************************************************)
(* HoverFill: a directional hover/focus fill overlay (src/HoverFill.tsx).  *)
(*                                                                         *)
(* Two variants live in the source file:                                   *)
(*   - the wrapper component (lines 96-300), state prefixed w_;            *)
(*   - the hook component (lines 361-522), state prefixed h_.              *)
(* Both drive the same animation engine (gsap).  The engine is modelled    *)
(* as a list of timelines in flight per overlay; a Tick renders them in    *)
(* creation order, so a later timeline's write wins within one frame.      *)
(*                                                                         *)
(* Units: time in milliseconds (0.5 s = 500); a viewBox string             *)
(* "x y w h" is the tuple <<x, y, w, h>>; a path string                    *)
(* "M a b Q c d e f Q ..." is the tuple of its 18 numbers.                 *)
(***************************************************************************)
EXTENDS Integers, Sequences, FiniteSets, TLC

VARIABLES
    w_life,       \* wrapper: "new" | "mounted"
    w_props,      \* wrapper: props of the latest render
    w_isFilled,   \* wrapper: useState(false), line 120: the state as of
                  \* the latest setIsFilled, rendered or not
    w_seen,       \* wrapper: the isFilled of the latest render, the one
                  \* the handlers of that render test
    w_viewBox,    \* wrapper: viewBox attribute of the svg node
    w_d,          \* wrapper: d attribute of the path node (<<>>: absent)
    w_timelines,  \* wrapper: gsap timelines in flight on this overlay
    w_last,       \* wrapper: the DOM event delivered in the latest step
    w_pinnedEver, \* wrapper: fillPin has been true in every render so far
    w_played,     \* wrapper: the latest call of animation(), or NoCall
    h_life,       \* hook: "new" | "mounted" | "unmounted"
    h_props,      \* hook: props of the latest render
    h_hovered,    \* hook: hovered ref, line 371
    h_vbProp,     \* hook: viewBox prop (vbInit) of the latest render
    h_viewBox,    \* hook: viewBox attribute of the svg node
    h_d,          \* hook: d attribute of the path node
    h_timelines,  \* hook: gsap timelines in flight on this overlay
    h_listeners,  \* hook: listeners registered on the parent element
    h_pending,    \* hook: passive effect work of the latest commit that
                  \* has not run yet: "none" | "mount" | "update" | "unmount"
    h_hasParent,  \* hook: the svg was committed under a parent element
    h_error,      \* hook: code of the instance has raised an error
    h_last,       \* hook: the DOM event delivered in the latest step
    h_pinnedEver, \* hook: pinned has been true in every render so far
    h_played      \* hook: the latest call of animation(), or NoCall

w_vars == <<w_life, w_props, w_isFilled, w_seen, w_viewBox, w_d,
            w_timelines, w_last, w_pinnedEver, w_played>>
h_vars == <<h_life, h_props, h_hovered, h_vbProp, h_viewBox, h_d,
            h_timelines, h_listeners, h_pending, h_hasParent, h_error,
            h_last, h_pinnedEver, h_played>>
vars == <<w_vars, h_vars>>

----------------------------------------------------------------------------
(* Bounds of the model.                                                    *)

\* Timelines in flight on one overlay; an event is not delivered beyond it.
MaxTimelines == 2
\* Pointer coordinates of the geometry specification range over
\* -1..GeomMax on both axes.
GeomMax == 3

----------------------------------------------------------------------------
(* viewBox and path constants (lines 132-148, repeated at 373-390).        *)

vbCenter == <<0, 0, 100, 100>>
vbTop == <<0, 101, 100, 100>>
vbBottom == <<0, -101, 100, 100>>
vbLeft == <<101, 0, 100, 100>>
vbRight == <<-101, 0, 100, 100>>
\* The wrapper's svg is rendered with viewBox="0 0 0 0" (line 279).
vbZero == <<0, 0, 0, 0>>

squarePath ==
    <<0, 0, 50, 0, 100, 0, 100, 50, 100, 100, 50, 100, 0, 100, 0, 50, 0, 0>>
concaveTopPath ==
    <<0, 0, 50, 50, 100, 0, 100, 50, 100, 100, 50, 100, 0, 100, 0, 50, 0, 0>>
concaveRightPath ==
    <<0, 0, 50, 0, 100, 0, 50, 50, 100, 100, 50, 100, 0, 100, 0, 50, 0, 0>>
concaveBottomPath ==
    <<0, 0, 50, 0, 100, 0, 100, 50, 100, 100, 50, 50, 0, 100, 0, 50, 0, 0>>
concaveLeftPath ==
    <<0, 0, 50, 0, 100, 0, 100, 50, 100, 100, 50, 100, 0, 100, 50, 50, 0, 0>>
convexTopPath ==
    <<0, 0, 50, -50, 100, 0, 100, 50, 100, 100, 50, 100, 0, 100, 0, 50, 0, 0>>
convexBottomPath ==
    <<0, 0, 50, 0, 100, 0, 100, 50, 100, 100, 50, 150, 0, 100, 0, 50, 0, 0>>
convexLeftPath ==
    <<0, 0, 50, 0, 100, 0, 100, 50, 100, 100, 50, 100, 0, 100, -50, 50, 0, 0>>
convexRightPath ==
    <<0, 0, 50, 0, 100, 0, 150, 50, 100, 100, 50, 100, 0, 100, 0, 50, 0, 0>>
\* The wrapper's <path> is rendered without a d attribute (line 294).
noPath == <<>>

OffsetViewBoxes == {vbTop, vbBottom, vbLeft, vbRight}

----------------------------------------------------------------------------
(* Edge detector: getMouseEnterDirection (lines 18-43, repeated 334-359).  *)
(* rect is the bounding rectangle [top, bottom, left, right]; x, y are     *)
(* clientX, clientY.                                                       *)

Abs(n) == IF n < 0 THEN -n ELSE n

Min2(a, b) == IF a <= b THEN a ELSE b

Min4(a, b, c, e) == Min2(Min2(a, b), Min2(c, e))

topEdgeDistance(y, rect) == Abs(rect.top - y)
bottomEdgeDistance(y, rect) == Abs(rect.bottom - y)
leftEdgeDistance(x, rect) == Abs(rect.left - x)
rightEdgeDistance(x, rect) == Abs(rect.right - x)

\* The switch compares min with the cases in source order; the first case
\* that is strictly equal returns.  No case matching returns undefined.
DetectorSwitchFirstLast(min, t, b, l, r) ==
    IF min = r THEN "right"
    ELSE IF min = l THEN "left"
    ELSE IF min = b THEN "bottom"
    ELSE IF min = t THEN "top"
    ELSE "undefined"

DetectorSwitch(min, t, b, l, r) ==
    IF min = t THEN "top"
    ELSE IF min = b THEN "bottom"
    ELSE IF min = l THEN "left"
    ELSE IF min = r THEN "right"
    ELSE "undefined"

\* A detector that looks at the vertical axis only.
getMouseEnterDirectionVertical(x, y, rect) ==
    LET t == topEdgeDistance(y, rect)
        b == bottomEdgeDistance(y, rect)
    IN  DetectorSwitch(Min2(t, b), t, b, t, b)

getMouseEnterDirection(x, y, rect) ==
    LET t == topEdgeDistance(y, rect)
        b == bottomEdgeDistance(y, rect)
        l == leftEdgeDistance(x, rect)
        r == rightEdgeDistance(x, rect)
    IN  DetectorSwitch(Min4(t, b, l, r), t, b, l, r)

Edges == {"top", "bottom", "left", "right"}

----------------------------------------------------------------------------
(* The eight named transitions (lines 186-216, repeated 458-488): each is  *)
(* one call animation(vbFrom, vbTo, drawPath).                             *)

Transition(n, from, to, path) ==
    [name |-> n, vbFrom |-> from, vbTo |-> to, drawPath |-> path]

slideDownOut == Transition("slideDownOut", vbCenter, vbBottom, concaveTopPath)
slideUpIn == Transition("slideUpIn", vbBottom, vbCenter, convexTopPath)
slideUpOut == Transition("slideUpOut", vbCenter, vbTop, concaveBottomPath)
slideDownIn == Transition("slideDownIn", vbTop, vbCenter, convexBottomPath)
slideLeftIn == Transition("slideLeftIn", vbLeft, vbCenter, convexRightPath)
slideRightIn == Transition("slideRightIn", vbRight, vbCenter, convexLeftPath)
slideLeftOut == Transition("slideLeftOut", vbCenter, vbLeft, concaveRightPath)
\* slideRightOut ending at the left-offset window.
slideRightOutToLeft ==
    Transition("slideRightOut", vbCenter, vbLeft, concaveLeftPath)

slideRightOut == Transition("slideRightOut", vbCenter, vbRight, concaveLeftPath)

InTransitions == {slideUpIn, slideDownIn, slideLeftIn, slideRightIn}
OutTransitions == {slideUpOut, slideDownOut, slideLeftOut, slideRightOut}

----------------------------------------------------------------------------
(* Animation engine: what the timeline built by animation() does            *)
(* (lines 150-184 wrapper, 423-456 hook).                                   *)
(*                                                                          *)
(* A timeline holds, in order: set(svg, viewBox: vbFrom) at 0; in the hook  *)
(* also set(path, d: squarePath) at 0; to(svg, viewBox: vbTo) at 0;         *)
(* to(path, d: drawPath) at 0; to(path, d: squarePath) at '-=70%'.  Every   *)
(* tween has the default duration and ease 'power2.out'.  A tween reads     *)
(* its start value from the attribute when it first renders; a finished     *)
(* tween writes no more.                                                    *)

\* Duration of 0.5 seconds, the default of fillDuration / duration.
DefaultDuration == 500

\* A start of the square tween at 70% of the duration.
SquareTweenStartAtSeventy(dur) == (70 * dur) \div 100

\* The position '-=70%' of a tween of duration dur appended to a timeline
\* whose end is at dur: the end of the timeline moved back by 70% of the
\* inserted tween's duration.
SquareTweenStart(dur) == dur - (70 * dur) \div 100

\* The end of the whole timeline.
TimelineEnd(dur) == SquareTweenStart(dur) + dur

\* 'power2.out' at elapsed t of dur, in thousandths: 1 - (1 - t/dur)^3.
EaseOut(t, dur) ==
    LET q == ((dur - t) * 1000) \div dur
    IN  1000 - (q * q * q) \div 1000000

\* Number-by-number interpolation of an attribute string.
Interpolate(from, to, ratio) ==
    [i \in DOMAIN to |-> from[i] + ((to[i] - from[i]) * ratio) \div 1000]

\* gsap.timeline({defaults: {duration, ease}}) with its five (six) tweens,
\* not rendered yet.
NewTimeline(tr, dur, reset) ==
    [name |-> tr.name, vbFrom |-> tr.vbFrom, vbTo |-> tr.vbTo,
     drawPath |-> tr.drawPath, duration |-> dur, resetPath |-> reset,
     time |-> 0, vbStart |-> <<>>, d1Start |-> <<>>, d2Start |-> <<>>]

\* One frame of one timeline: its time advances by dt and its tweens
\* render in order onto the attributes a = [viewBox, d].
RenderTimeline(tl, a, dt) ==
    LET dur == tl.duration
        s2 == SquareTweenStart(dur)
        t0 == tl.time
        t1 == t0 + dt
        first == (t0 = 0)
        \* the zero-duration sets at position 0
        vbA == IF first THEN tl.vbFrom ELSE a.viewBox
        dA == IF first /\ tl.resetPath THEN squarePath ELSE a.d
        \* to(svg, viewBox: vbTo) at 0
        vbStart == IF first THEN vbA ELSE tl.vbStart
        vbB == IF t0 < dur
               THEN Interpolate(vbStart, tl.vbTo, EaseOut(Min2(t1, dur), dur))
               ELSE vbA
        \* to(path, d: drawPath) at 0
        d1Start == IF first THEN dA ELSE tl.d1Start
        dB == IF t0 < dur
              THEN Interpolate(d1Start, tl.drawPath,
                               EaseOut(Min2(t1, dur), dur))
              ELSE dA
        \* to(path, d: squarePath) at '-=70%'
        active2 == t1 >= s2 /\ t0 < s2 + dur
        d2Start == IF tl.d2Start # <<>> THEN tl.d2Start
                   ELSE IF t1 >= s2 THEN dB ELSE <<>>
        dC == IF active2
              THEN Interpolate(d2Start, squarePath,
                               EaseOut(Min2(t1 - s2, dur), dur))
              ELSE dB
    IN  [tl |-> [tl EXCEPT !.time = t1, !.vbStart = vbStart,
                           !.d1Start = d1Start, !.d2Start = d2Start],
         a |-> [viewBox |-> vbB, d |-> dC]]

\* A timeline that ends with its viewBox tween.
TimelineDoneAtDuration(tl) == tl.time >= tl.duration

TimelineDone(tl) == tl.time >= TimelineEnd(tl.duration)

\* One frame of the engine on one overlay: the timelines render in the
\* order they were created; those that completed are dropped.
RECURSIVE RenderAll(_, _, _)
RenderAll(tls, a, dt) ==
    IF tls = <<>> THEN [tls |-> <<>>, a |-> a]
    ELSE LET r == RenderTimeline(Head(tls), a, dt)
             rest == RenderAll(Tail(tls), r.a, dt)
         IN  [tls |-> IF TimelineDone(r.tl) THEN rest.tls
                      ELSE <<r.tl>> \o rest.tls,
              a |-> rest.a]

----------------------------------------------------------------------------
(* Records shared by both variants.                                        *)

\* One call animation(vbFrom, vbTo, drawPath) with the duration its
\* timeline gets.
Call(tr, dur) ==
    [name |-> tr.name, vbFrom |-> tr.vbFrom, vbTo |-> tr.vbTo,
     drawPath |-> tr.drawPath, duration |-> dur]

\* No call of animation() has been made yet.
NoCall ==
    [name |-> "none", vbFrom |-> <<>>, vbTo |-> <<>>, drawPath |-> <<>>,
     duration |-> 0]

\* The latest call of animation() after a handler made the given calls.
Played(prev, calls) == IF calls = <<>> THEN prev ELSE calls[Len(calls)]

Rect(t, b, l, r) == [top |-> t, bottom |-> b, left |-> l, right |-> r]

\* The DOM event the latest step delivered to the host (wrapper) or parent
\* (hook): its kind and pointer geometry, the filled flag before and after
\* it, the number of handlers that ran, whether a handler got past its
\* guard on the flag and wrote it, the edge the detector returned
\* ("none": the detector was not called), and the driver calls the
\* handlers made.  seq flips with every event delivered.  A step that
\* delivers no event (a render, a frame) leaves NoEvent.
NoEvent ==
    [kind |-> "none", x |-> 0, y |-> 0, rect |-> Rect(0, 0, 0, 0),
     pre |-> FALSE, post |-> FALSE, handled |-> 0, wrote |-> FALSE,
     edge |-> "none", calls |-> <<>>, seq |-> 0]

Event(k, x, y, rect, pre, post, handled, wrote, edge, calls, prev) ==
    [kind |-> k, x |-> x, y |-> y, rect |-> rect, pre |-> pre, post |-> post,
     handled |-> handled, wrote |-> wrote, edge |-> edge, calls |-> calls,
     seq |-> 1 - prev.seq]

RECURSIVE StartAll(_, _)
\* The timelines the calls of one handler create, in call order.
StartAll(calls, reset) ==
    IF calls = <<>> THEN <<>>
    ELSE <<NewTimeline(calls[1], calls[1].duration, reset)>>
         \o StartAll(Tail(calls), reset)

----------------------------------------------------------------------------
(* Wrapper variant (lines 96-300).                                         *)

\* Direction words of fillTabEnter / fillTabLeave (lines 81, 85).
TabDirections == {"up", "down", "left", "right"}

\* useGSAP setup, run once after the first render (lines 218-223).
w_useGSAP(fillPin) ==
    [viewBox |-> IF fillPin THEN vbCenter ELSE vbTop, d |-> squarePath]

\* animation() of the wrapper (lines 150-184): one timeline, no reset of
\* the path.
w_animation(calls) == StartAll(calls, FALSE)

\* Dispatch of handleMouseEnter (lines 230-235).
w_enterTransition(mouseDirection, fillInvert) ==
    IF mouseDirection = "bottom"
    THEN (IF fillInvert THEN slideDownIn ELSE slideUpIn)
    ELSE IF mouseDirection = "top"
    THEN (IF fillInvert THEN slideUpIn ELSE slideDownIn)
    ELSE IF mouseDirection = "left"
    THEN (IF fillInvert THEN slideRightIn ELSE slideLeftIn)
    ELSE (IF fillInvert THEN slideLeftIn ELSE slideRightIn)

\* A leave dispatch whose left branch inverts like the other three.
w_leaveTransitionSymmetric(mouseDirection, fillInvert) ==
    IF mouseDirection = "bottom"
    THEN (IF fillInvert THEN slideUpOut ELSE slideDownOut)
    ELSE IF mouseDirection = "top"
    THEN (IF fillInvert THEN slideDownOut ELSE slideUpOut)
    ELSE IF mouseDirection = "left"
    THEN (IF fillInvert THEN slideRightOut ELSE slideLeftOut)
    ELSE (IF fillInvert THEN slideLeftOut ELSE slideRightOut)

\* Dispatch of handleMouseLeave (lines 243-249).
w_leaveTransition(mouseDirection, fillInvert) ==
    IF mouseDirection = "bottom"
    THEN (IF fillInvert THEN slideUpOut ELSE slideDownOut)
    ELSE IF mouseDirection = "top"
    THEN (IF fillInvert THEN slideDownOut ELSE slideUpOut)
    ELSE IF mouseDirection = "left"
    THEN (IF fillInvert THEN slideLeftOut ELSE slideLeftOut)
    ELSE (IF fillInvert THEN slideLeftOut ELSE slideRightOut)

\* What a handler that got past its guard on the flag leaves behind: the
\* value it wrote to the flag (setIsFilled, hovered.current), the edge
\* detected and the driver calls made.
Outcome(filled, edge, calls) ==
    [isFilled |-> filled, wrote |-> TRUE, edge |-> edge, calls |-> calls]

\* What a handler leaves behind that returned at its guard on the flag,
\* having seen the value flag: nothing written, nothing called.
Skipped(flag) ==
    [isFilled |-> flag, wrote |-> FALSE, edge |-> "none", calls |-> <<>>]

\* handleMouseEnter (lines 225-236).
w_handleMouseEnter(isFilled, props, x, y, rect) ==
    IF isFilled THEN Skipped(isFilled)
    ELSE IF props.fillPin THEN Outcome(TRUE, "none", <<>>)
    ELSE LET mouseDirection == getMouseEnterDirection(x, y, rect)
         IN  Outcome(TRUE, mouseDirection,
                     <<Call(w_enterTransition(mouseDirection,
                                              props.fillInvert),
                            props.fillDuration)>>)

\* handleMouseLeave (lines 238-250).
w_handleMouseLeave(isFilled, props, x, y, rect) ==
    IF ~isFilled THEN Skipped(isFilled)
    ELSE IF props.fillPin THEN Outcome(FALSE, "none", <<>>)
    ELSE LET mouseDirection == getMouseEnterDirection(x, y, rect)
         IN  Outcome(FALSE, mouseDirection,
                     <<Call(w_leaveTransition(mouseDirection,
                                              props.fillInvert),
                            props.fillDuration)>>)

\* handleFocus that plays the transition fillTabEnter names.
w_handleFocusByOption(isFilled, props) ==
    IF isFilled THEN Skipped(isFilled)
    ELSE IF props.fillPin THEN Outcome(TRUE, "none", <<>>)
    ELSE Outcome(TRUE, "none",
                 <<Call(CASE props.fillTabEnter = "up" -> slideUpIn
                          [] props.fillTabEnter = "down" -> slideDownIn
                          [] props.fillTabEnter = "left" -> slideLeftIn
                          [] OTHER -> slideRightIn,
                        props.fillDuration)>>)

\* handleFocus (lines 252-257).
w_handleFocus(isFilled, props) ==
    IF isFilled THEN Skipped(isFilled)
    ELSE IF props.fillPin THEN Outcome(TRUE, "none", <<>>)
    ELSE Outcome(TRUE, "none", <<Call(slideUpIn, props.fillDuration)>>)

\* handleBlur that plays the exit and leaves the filled flag set.
w_handleBlurKeepingFlag(isFilled, props) ==
    IF ~isFilled THEN Skipped(isFilled)
    ELSE IF props.fillPin THEN Outcome(FALSE, "none", <<>>)
    ELSE Outcome(TRUE, "none", <<Call(slideDownOut, props.fillDuration)>>)

\* handleBlur (lines 259-264).
w_handleBlur(isFilled, props) ==
    IF ~isFilled THEN Skipped(isFilled)
    ELSE IF props.fillPin THEN Outcome(FALSE, "none", <<>>)
    ELSE Outcome(FALSE, "none", <<Call(slideDownOut, props.fillDuration)>>)

\* onFocus / onBlur are attached to the host only with fillOnTab
\* (line 271).
w_tabHandlersAttachedAlways(props) == TRUE

w_tabHandlersAttached(props) == props.fillOnTab

\* First render and commit: the svg is created with viewBox "0 0 0 0" and
\* a path without d, then the useGSAP setup runs.
w_mount(props) ==
    /\ w_life = "new"
    /\ w_life' = "mounted"
    /\ w_props' = props
    /\ w_isFilled' = FALSE
    /\ w_seen' = FALSE
    /\ w_viewBox' = w_useGSAP(props.fillPin).viewBox
    /\ w_d' = w_useGSAP(props.fillPin).d
    /\ w_pinnedEver' = props.fillPin
    /\ w_last' = NoEvent
    /\ UNCHANGED <<w_timelines, w_played>>

\* A re-render with new props: the svg's viewBox prop stays "0 0 0 0", so
\* the attribute is not touched; the setup of useGSAP does not run again.
\* The handlers it creates (lines 225-264) close over its props and over
\* the isFilled it read at line 120.
w_rerender(props) ==
    /\ w_life = "mounted"
    /\ w_props' = props
    /\ w_seen' = w_isFilled
    /\ w_pinnedEver' = (w_pinnedEver /\ props.fillPin)
    /\ w_last' = NoEvent
    /\ UNCHANGED <<w_life, w_isFilled, w_viewBox, w_d, w_timelines,
                   w_played>>

\* The re-render a setIsFilled (lines 227, 240, 254, 261) has scheduled:
\* it runs as a later task than the handler that called it, reads the new
\* isFilled at line 120 and creates the handlers that test it.
w_flush ==
    /\ w_life = "mounted"
    /\ w_seen # w_isFilled
    /\ w_seen' = w_isFilled
    /\ w_last' = NoEvent
    /\ UNCHANGED <<w_life, w_props, w_isFilled, w_viewBox, w_d, w_timelines,
                   w_pinnedEver, w_played>>

\* The state change of one event whose handler left outcome o: a handler
\* past its guard calls setIsFilled, which changes the state and leaves
\* the render, and with it the value the handlers test, as it was.
w_deliver(kind, x, y, rect, handled, o) ==
    /\ w_isFilled' = IF o.wrote THEN o.isFilled ELSE w_isFilled
    /\ w_timelines' = w_timelines \o w_animation(o.calls)
    /\ w_last' = Event(kind, x, y, rect, w_isFilled,
                       IF o.wrote THEN o.isFilled ELSE w_isFilled,
                       handled, o.wrote, o.edge, o.calls, w_last)
    /\ w_played' = Played(w_played, o.calls)
    /\ UNCHANGED <<w_life, w_props, w_seen, w_viewBox, w_d, w_pinnedEver>>

w_onMouseEnter(x, y, rect) ==
    /\ w_life = "mounted"
    /\ Len(w_timelines) < MaxTimelines
    /\ w_deliver("enter", x, y, rect, 1,
                 w_handleMouseEnter(w_seen, w_props, x, y, rect))

w_onMouseLeave(x, y, rect) ==
    /\ w_life = "mounted"
    /\ Len(w_timelines) < MaxTimelines
    /\ w_deliver("leave", x, y, rect, 1,
                 w_handleMouseLeave(w_seen, w_props, x, y, rect))

w_onFocus ==
    /\ w_life = "mounted"
    /\ Len(w_timelines) < MaxTimelines
    /\ IF w_tabHandlersAttached(w_props)
       THEN w_deliver("focus", 0, 0, Rect(0, 0, 0, 0), 1,
                      w_handleFocus(w_seen, w_props))
       ELSE w_deliver("focus", 0, 0, Rect(0, 0, 0, 0), 0,
                      Skipped(w_seen))

w_onBlur ==
    /\ w_life = "mounted"
    /\ Len(w_timelines) < MaxTimelines
    /\ IF w_tabHandlersAttached(w_props)
       THEN w_deliver("blur", 0, 0, Rect(0, 0, 0, 0), 1,
                      w_handleBlur(w_seen, w_props))
       ELSE w_deliver("blur", 0, 0, Rect(0, 0, 0, 0), 0,
                      Skipped(w_seen))

----------------------------------------------------------------------------
(* Hook variant (lines 361-522).                                           *)

\* vbInit (line 378): the viewBox prop of a render.
h_vbInit(pinned, hovered) ==
    IF pinned THEN vbCenter ELSE IF hovered THEN vbCenter ELSE vbTop

\* The two handlers one run of the effect creates; they close over the
\* pinned and duration of the render that ran the effect.
Listener(type, props) ==
    [type |-> type, pinned |-> props.pinned, duration |-> props.duration]

\* parent.addEventListener of one effect run (lines 490-491).
h_addListeners(listeners, props) ==
    listeners \o <<Listener("mouseenter", props),
                   Listener("mouseleave", props)>>

RECURSIVE RemoveFirst(_, _)
\* removeEventListener: the first registration of that handler goes.
RemoveFirst(listeners, l) ==
    IF listeners = <<>> THEN <<>>
    ELSE IF Head(listeners) = l THEN Tail(listeners)
    ELSE <<Head(listeners)>> \o RemoveFirst(Tail(listeners), l)

\* A cleanup that removes nothing.
h_cleanupNothing(listeners, effect) == listeners

\* The cleanup the effect returned (lines 492-495).
h_cleanup(listeners, effect) ==
    RemoveFirst(RemoveFirst(listeners, Listener("mouseenter", effect)),
                Listener("mouseleave", effect))

\* animation() of the hook (lines 423-456): the timeline also sets the
\* path to squarePath at position 0.
h_animation(calls) == StartAll(calls, TRUE)

\* Dispatch of the hook's handleMouseEnter (lines 403-406): no branch for
\* a direction that is none of the four.
h_enterCalls(mouseDirection, duration) ==
    IF mouseDirection = "bottom" THEN <<Call(slideUpIn, duration)>>
    ELSE IF mouseDirection = "top" THEN <<Call(slideDownIn, duration)>>
    ELSE IF mouseDirection = "left" THEN <<Call(slideLeftIn, duration)>>
    ELSE IF mouseDirection = "right" THEN <<Call(slideRightIn, duration)>>
    ELSE <<>>

\* A leave dispatch that pairs each edge with the exit named after it.
h_leaveCallsByName(mouseDirection, duration) ==
    IF mouseDirection = "bottom" THEN <<Call(slideUpOut, duration)>>
    ELSE IF mouseDirection = "top" THEN <<Call(slideDownOut, duration)>>
    ELSE IF mouseDirection = "left" THEN <<Call(slideLeftOut, duration)>>
    ELSE IF mouseDirection = "right" THEN <<Call(slideRightOut, duration)>>
    ELSE <<>>

\* Dispatch of the hook's handleMouseLeave (lines 414-417).
h_leaveCalls(mouseDirection, duration) ==
    IF mouseDirection = "bottom" THEN <<Call(slideDownOut, duration)>>
    ELSE IF mouseDirection = "top" THEN <<Call(slideUpOut, duration)>>
    ELSE IF mouseDirection = "left" THEN <<Call(slideLeftOut, duration)>>
    ELSE IF mouseDirection = "right" THEN <<Call(slideRightOut, duration)>>
    ELSE <<>>

\* handleMouseEnter of the hook (lines 398-407), run as listener l.
h_handleMouseEnter(hovered, l, x, y, rect) ==
    IF hovered THEN Skipped(hovered)
    ELSE IF l.pinned THEN Outcome(TRUE, "none", <<>>)
    ELSE LET mouseDirection == getMouseEnterDirection(x, y, rect)
         IN  Outcome(TRUE, mouseDirection,
                     h_enterCalls(mouseDirection, l.duration))

\* handleMouseLeave of the hook that inverts the direction with the
\* invert option, as the wrapper does with fillInvert.
h_handleMouseLeaveInverting(hovered, l, x, y, rect) ==
    IF ~hovered THEN Skipped(hovered)
    ELSE IF l.pinned THEN Outcome(FALSE, "none", <<>>)
    ELSE LET mouseDirection == getMouseEnterDirection(x, y, rect)
         IN  Outcome(FALSE, mouseDirection,
                     <<Call(w_leaveTransition(mouseDirection,
                                              h_props.invert),
                            l.duration)>>)

\* handleMouseLeave of the hook (lines 409-418), run as listener l.
h_handleMouseLeave(hovered, l, x, y, rect) ==
    IF ~hovered THEN Skipped(hovered)
    ELSE IF l.pinned THEN Outcome(FALSE, "none", <<>>)
    ELSE LET mouseDirection == getMouseEnterDirection(x, y, rect)
         IN  Outcome(FALSE, mouseDirection,
                     h_leaveCalls(mouseDirection, l.duration))

RECURSIVE h_dispatch(_, _, _, _, _, _)
\* The parent element delivers an event of the given type to the
\* listeners registered for it, in registration order.  acc carries the
\* hovered ref, the handlers run, whether one of them wrote the ref, and
\* the edge and calls so far.
h_dispatch(listeners, type, x, y, rect, acc) ==
    IF listeners = <<>> THEN acc
    ELSE LET l == Head(listeners)
             o == IF type = "mouseenter"
                  THEN h_handleMouseEnter(acc.hovered, l, x, y, rect)
                  ELSE h_handleMouseLeave(acc.hovered, l, x, y, rect)
             next == IF l.type = type
                     THEN [hovered |-> IF o.wrote THEN o.isFilled
                                       ELSE acc.hovered,
                           handled |-> acc.handled + 1,
                           wrote |-> acc.wrote \/ o.wrote,
                           edge |-> IF o.edge # "none" THEN o.edge
                                    ELSE acc.edge,
                           calls |-> acc.calls \o o.calls]
                     ELSE acc
         IN  h_dispatch(Tail(listeners), type, x, y, rect, next)

\* First render and commit (lines 498-521): the svg is created with the
\* viewBox of vbInit and the path with squarePath, under a parent element
\* or not.  The effect (lines 392-496) is passive: the commit schedules
\* it and returns, no listener registered yet.
h_mount(props, hasParent) ==
    /\ h_life = "new"
    /\ h_life' = "mounted"
    /\ h_props' = props
    /\ h_hovered' = FALSE
    /\ h_vbProp' = h_vbInit(props.pinned, FALSE)
    /\ h_viewBox' = h_vbInit(props.pinned, FALSE)
    /\ h_d' = squarePath
    /\ h_pending' = "mount"
    /\ h_hasParent' = hasParent
    /\ h_error' = FALSE
    /\ h_pinnedEver' = props.pinned
    /\ h_last' = NoEvent
    /\ UNCHANGED <<h_timelines, h_listeners, h_played>>

\* The props the registered handlers were created under: those of the
\* render whose effect run added them, which its cleanup removes.
h_effectProps ==
    IF h_listeners = <<>> THEN h_props
    ELSE [pinned |-> h_listeners[Len(h_listeners)].pinned,
          duration |-> h_listeners[Len(h_listeners)].duration]

\* A re-render with new props.  React runs the passive effects of the
\* previous commit before it renders again.  At commit it writes the
\* viewBox attribute when the viewBox prop differs from that of the
\* previous render; the d prop never differs.  When pinned changed
\* (line 496), the commit schedules the previous effect's cleanup and a
\* new run of the effect; the listeners stay as they are until then.
h_rerender(props) ==
    /\ h_life = "mounted"
    /\ h_pending = "none"
    /\ h_props' = props
    /\ h_vbProp' = h_vbInit(props.pinned, h_hovered)
    /\ h_viewBox' = IF h_vbProp' # h_vbProp THEN h_vbProp' ELSE h_viewBox
    /\ h_pending' = IF props.pinned # h_props.pinned THEN "update"
                    ELSE "none"
    /\ h_pinnedEver' = (h_pinnedEver /\ props.pinned)
    /\ h_last' = NoEvent
    /\ UNCHANGED <<h_life, h_hovered, h_d, h_timelines, h_listeners,
                   h_hasParent, h_error, h_played>>

\* Unmount: the commit detaches the svg and schedules the effect's
\* cleanup; the listeners stay on the parent until it runs.  Timelines in
\* flight are not killed and go on rendering onto the detached nodes.
h_unmount ==
    /\ h_life = "mounted"
    /\ h_pending = "none"
    /\ h_life' = "unmounted"
    /\ h_pending' = "unmount"
    /\ h_last' = NoEvent
    /\ UNCHANGED <<h_props, h_hovered, h_vbProp, h_viewBox, h_d,
                   h_timelines, h_listeners, h_hasParent, h_error,
                   h_pinnedEver, h_played>>

\* One run of the effect body (lines 392-496) under the given props: it
\* returns early, registering nothing, when the svg has no parent
\* element (line 396).
h_useEffect(listeners, props, hasParent) ==
    IF hasParent THEN h_addListeners(listeners, props) ELSE listeners

\* Calling a method of a value raises a TypeError when the value is
\* absent (null).
Raises(present) == ~present

\* Whether a run of the effect body raises an error.  The svg node it
\* reads at line 395 is attached at commit; the one value it can find
\* absent, the parent element, it uses (lines 490-491) only past the
\* return of line 396.
h_useEffectRaises(hasParent) ==
    IF ~hasParent THEN FALSE ELSE Raises(hasParent)

\* Whether the cleanup raises an error: an effect run that registered
\* listeners returned one, which calls removeEventListener of the parent
\* element that run found (lines 492-495).
h_cleanupRaises(listeners, hasParent) ==
    listeners # <<>> /\ Raises(hasParent)

\* The passive effects of the latest commit run, as a task of their own
\* after it: after the first commit the effect; after a commit that
\* changed pinned the previous effect's cleanup, then the effect; after
\* the unmount the cleanup.
h_flushEffects ==
    /\ h_pending # "none"
    /\ h_listeners' =
           IF h_pending = "mount"
           THEN h_useEffect(h_listeners, h_props, h_hasParent)
           ELSE IF h_pending = "update"
           THEN h_useEffect(h_cleanup(h_listeners, h_effectProps), h_props,
                            h_hasParent)
           ELSE h_cleanup(h_listeners, h_effectProps)
    /\ h_error' =
           (\/ h_error
            \/ h_pending \in {"update", "unmount"}
                   /\ h_cleanupRaises(h_listeners, h_hasParent)
            \/ h_pending \in {"mount", "update"}
                   /\ h_useEffectRaises(h_hasParent))
    /\ h_pending' = "none"
    /\ h_last' = NoEvent
    /\ UNCHANGED <<h_life, h_props, h_hovered, h_vbProp, h_viewBox, h_d,
                   h_timelines, h_hasParent, h_pinnedEver, h_played>>

\* A mouseenter or mouseleave event on the parent element, mounted or
\* not.  The handlers call methods of the event's target, the parent
\* element, and animate the svg and path nodes their effect run captured
\* (lines 420-421), mounted or detached: nothing they use is absent.
h_parentEvent(type, x, y, rect) ==
    /\ h_life # "new"
    /\ h_hasParent
    /\ Len(h_timelines) < MaxTimelines
    /\ LET r == h_dispatch(h_listeners, type, x, y, rect,
                           [hovered |-> h_hovered, handled |-> 0,
                            wrote |-> FALSE, edge |-> "none",
                            calls |-> <<>>])
       IN  /\ h_hovered' = r.hovered
           /\ h_timelines' = h_timelines \o h_animation(r.calls)
           /\ h_last' = Event(IF type = "mouseenter" THEN "enter"
                              ELSE "leave",
                              x, y, rect, h_hovered, r.hovered, r.handled,
                              r.wrote, r.edge, r.calls, h_last)
           /\ h_played' = Played(h_played, r.calls)
    /\ UNCHANGED <<h_life, h_props, h_vbProp, h_viewBox, h_d, h_listeners,
                   h_pending, h_hasParent, h_error, h_pinnedEver>>

----------------------------------------------------------------------------
(* The engine's frame.                                                     *)

\* One frame, dt milliseconds after the previous one: the timelines of
\* both overlays render, onto the nodes they were created with, which an
\* unmount detaches and leaves in existence.
Tick(dt) ==
    /\ w_timelines # <<>> \/ h_timelines # <<>>
    /\ LET w == RenderAll(w_timelines, [viewBox |-> w_viewBox, d |-> w_d],
                          dt)
           h == RenderAll(h_timelines, [viewBox |-> h_viewBox, d |-> h_d],
                          dt)
       IN  /\ w_timelines' = w.tls
           /\ w_viewBox' = w.a.viewBox
           /\ w_d' = w.a.d
           /\ h_timelines' = h.tls
           /\ h_viewBox' = h.a.viewBox
           /\ h_d' = h.a.d
    /\ w_last' = NoEvent
    /\ h_last' = NoEvent
    /\ UNCHANGED <<w_life, w_props, w_isFilled, w_seen, w_pinnedEver,
                   w_played, h_life, h_props, h_hovered, h_vbProp,
                   h_listeners, h_pending, h_hasParent, h_error,
                   h_pinnedEver, h_played>>

----------------------------------------------------------------------------
(* Initial state: neither variant rendered yet.  Props hold the defaults   *)
(* of the destructuring (lines 101-110 and 362-367).                       *)

w_defaultProps ==
    [fillPin |-> FALSE, fillInvert |-> FALSE, fillOnTab |-> FALSE,
     fillTabEnter |-> "up", fillTabLeave |-> "down",
     fillDuration |-> DefaultDuration]

h_defaultProps ==
    [pinned |-> FALSE, invert |-> FALSE, duration |-> DefaultDuration]

Init ==
    /\ w_life = "new"
    /\ w_props = w_defaultProps
    /\ w_isFilled = FALSE
    /\ w_seen = FALSE
    /\ w_viewBox = vbZero
    /\ w_d = noPath
    /\ w_timelines = <<>>
    /\ w_last = NoEvent
    /\ w_pinnedEver = FALSE
    /\ w_played = NoCall
    /\ h_life = "new"
    /\ h_props = h_defaultProps
    /\ h_hovered = FALSE
    /\ h_vbProp = vbZero
    /\ h_viewBox = vbZero
    /\ h_d = noPath
    /\ h_timelines = <<>>
    /\ h_listeners = <<>>
    /\ h_pending = "none"
    /\ h_hasParent = FALSE
    /\ h_error = FALSE
    /\ h_last = NoEvent
    /\ h_pinnedEver = FALSE
    /\ h_played = NoCall

----------------------------------------------------------------------------
(* Inputs of the environment.                                              *)

\* Milliseconds between two frames of the lifecycle specifications.
FrameMs == 350

\* The host rectangle of the lifecycle specifications and one pointer
\* position nearest to each of its edges.
HostRect == Rect(0, 4, 0, 6)

Pointer(x, y, rect) == [x |-> x, y |-> y, rect |-> rect]

Probes ==
    {Pointer(3, 0, HostRect), Pointer(3, 4, HostRect),
     Pointer(0, 2, HostRect), Pointer(6, 2, HostRect)}

\* Pointer positions and rectangles of the geometry specification: every
\* position of a small grid, inside and outside a zero-size rectangle and
\* a rectangle that is not square.
GeomRects == {Rect(1, 1, 1, 1), Rect(0, 3, 1, 2)}

\* Milliseconds between two frames of the geometry specification: a slow
\* frame, longer than a whole timeline.
GeomFrameMs == 1000

GeomPointers ==
    {Pointer(x, y, r) : x \in -1..GeomMax, y \in -1..GeomMax,
                        r \in GeomRects}

WrapperProps(pins, inverts, onTabs, enters, leaves) ==
    [fillPin : pins, fillInvert : inverts, fillOnTab : onTabs,
     fillTabEnter : enters, fillTabLeave : leaves,
     fillDuration : {DefaultDuration}]

HookProps(pins) ==
    [pinned : pins, invert : BOOLEAN, duration : {DefaultDuration}]

\* The props of S that differ from p in exactly one field.
OneChange(p, S) ==
    {q \in S : Cardinality({f \in DOMAIN p : q[f] # p[f]}) = 1}

\* A step of the wrapper alone, of the hook alone.
WrapperStep(A) == A /\ UNCHANGED h_vars
HookStep(A) == A /\ UNCHANGED w_vars

----------------------------------------------------------------------------
(* Spec: the lifecycle of one instance of either variant: mount,           *)
(* re-renders that change pinned / invert / fillOnTab, pointer and focus   *)
(* events at the four edges, frames of the engine, unmount of the hook.    *)
(* The wrapper's re-render after a setIsFilled and the hook's effect and   *)
(* cleanup are steps of their own, so events can arrive before them.       *)

WPropsMain == WrapperProps(BOOLEAN, BOOLEAN, BOOLEAN, {"up"}, {"down"})
HPropsMain == HookProps(BOOLEAN)

Next ==
    \/ \E p \in WPropsMain : h_life = "new" /\ WrapperStep(w_mount(p))
    \/ \E p \in WPropsMain : WrapperStep(w_rerender(p))
    \/ WrapperStep(w_flush)
    \/ \E e \in Probes : WrapperStep(w_onMouseEnter(e.x, e.y, e.rect))
    \/ \E e \in Probes : WrapperStep(w_onMouseLeave(e.x, e.y, e.rect))
    \/ WrapperStep(w_onFocus)
    \/ WrapperStep(w_onBlur)
    \/ \E p \in HPropsMain, par \in BOOLEAN :
           w_life = "new" /\ HookStep(h_mount(p, par))
    \/ \E p \in HPropsMain : HookStep(h_rerender(p))
    \/ HookStep(h_unmount)
    \/ HookStep(h_flushEffects)
    \/ \E e \in Probes :
           HookStep(h_parentEvent("mouseenter", e.x, e.y, e.rect))
    \/ \E e \in Probes :
           HookStep(h_parentEvent("mouseleave", e.x, e.y, e.rect))
    \/ Tick(FrameMs)

Spec == Init /\ [][Next]_vars

----------------------------------------------------------------------------
(* SpecGeom: the edge detector under every pointer position and rectangle  *)
(* of GeomPointers, called by the enter and leave handlers of both         *)
(* variants.                                                               *)

WPropsGeom == WrapperProps(BOOLEAN, BOOLEAN, {FALSE}, {"up"}, {"down"})
HPropsGeom == [pinned : BOOLEAN, invert : {FALSE},
               duration : {DefaultDuration}]

NextGeom ==
    \/ \E p \in WPropsGeom : h_life = "new" /\ WrapperStep(w_mount(p))
    \/ WrapperStep(w_flush)
    \/ \E e \in GeomPointers : WrapperStep(w_onMouseEnter(e.x, e.y, e.rect))
    \/ \E e \in GeomPointers : WrapperStep(w_onMouseLeave(e.x, e.y, e.rect))
    \/ \E p \in HPropsGeom : w_life = "new" /\ HookStep(h_mount(p, TRUE))
    \/ HookStep(h_flushEffects)
    \/ \E e \in GeomPointers :
           HookStep(h_parentEvent("mouseenter", e.x, e.y, e.rect))
    \/ \E e \in GeomPointers :
           HookStep(h_parentEvent("mouseleave", e.x, e.y, e.rect))
    \/ Tick(GeomFrameMs)

SpecGeom == Init /\ [][NextGeom]_vars

----------------------------------------------------------------------------
(* SpecGeomPin: the steps of SpecGeom, and re-renders of the hook that     *)
(* change pinned, between transitions.                                     *)

NextGeomPin ==
    \/ NextGeom
    \/ \E p \in OneChange(h_props, HPropsGeom) :
           h_timelines = <<>> /\ HookStep(h_rerender(p))

SpecGeomPin == Init /\ [][NextGeomPin]_vars

----------------------------------------------------------------------------
(* SpecTab: the wrapper under every value of fillOnTab, fillTabEnter,      *)
(* fillTabLeave, fillInvert and fillPin, with focus, blur and pointer      *)
(* events at the top edge.                                                 *)

WPropsTab ==
    WrapperProps(BOOLEAN, BOOLEAN, BOOLEAN, TabDirections, TabDirections)

TabPointer == Pointer(3, 0, HostRect)

NextTab ==
    \/ \E p \in WPropsTab : WrapperStep(w_mount(p))
    \/ \E p \in OneChange(w_props, WPropsTab) : WrapperStep(w_rerender(p))
    \/ WrapperStep(w_flush)
    \/ WrapperStep(w_onMouseEnter(TabPointer.x, TabPointer.y,
                                  TabPointer.rect))
    \/ WrapperStep(w_onMouseLeave(TabPointer.x, TabPointer.y,
                                  TabPointer.rect))
    \/ WrapperStep(w_onFocus)
    \/ WrapperStep(w_onBlur)
    \/ Tick(FrameMs)

SpecTab == Init /\ [][NextTab]_vars

----------------------------------------------------------------------------
(* SpecTime: the timing of the timelines.  The duration is 0.5 s or 1 s    *)
(* and changes on re-render, as does pinned in the hook; frames are fine   *)
(* enough to fall before, between and after the starts and ends of the     *)
(* tweens.                                                                 *)

\* Milliseconds between two frames of the timing specification.
FineMs == 130

\* A second duration, twice the default.
LongDuration == 2 * DefaultDuration

Durations == {DefaultDuration, LongDuration}

WPropsTime ==
    [fillPin : {FALSE}, fillInvert : {FALSE}, fillOnTab : {FALSE},
     fillTabEnter : {"up"}, fillTabLeave : {"down"},
     fillDuration : Durations]
HPropsTime == [pinned : BOOLEAN, invert : {FALSE}, duration : Durations]

\* The pointer position of the timing specification, at the top edge.
TimeProbes == {Pointer(3, 0, HostRect)}

NextTime ==
    \/ \E p \in WPropsTime : h_life = "new" /\ WrapperStep(w_mount(p))
    \/ \E p \in OneChange(w_props, WPropsTime) : WrapperStep(w_rerender(p))
    \/ WrapperStep(w_flush)
    \/ \E e \in TimeProbes : WrapperStep(w_onMouseEnter(e.x, e.y, e.rect))
    \/ \E e \in TimeProbes : WrapperStep(w_onMouseLeave(e.x, e.y, e.rect))
    \/ \E p \in HPropsTime : w_life = "new" /\ HookStep(h_mount(p, TRUE))
    \/ \E p \in OneChange(h_props, HPropsTime) : HookStep(h_rerender(p))
    \/ HookStep(h_flushEffects)
    \/ \E e \in TimeProbes :
           HookStep(h_parentEvent("mouseenter", e.x, e.y, e.rect))
    \/ \E e \in TimeProbes :
           HookStep(h_parentEvent("mouseleave", e.x, e.y, e.rect))
    \/ Tick(FineMs)

SpecTime == Init /\ [][NextTime]_vars

----------------------------------------------------------------------------
(* SpecPair: one instance of each variant, mounted together with the same  *)
(* pinned and duration (the wrapper with invert-direction and tab          *)
(* animation off), receiving the same pointer events and the same frames.  *)

PairMount(pin, dur) ==
    /\ w_mount([w_defaultProps EXCEPT !.fillPin = pin, !.fillDuration = dur])
    /\ h_mount([h_defaultProps EXCEPT !.pinned = pin, !.duration = dur],
               TRUE)

PairEnter(x, y, rect) ==
    /\ w_onMouseEnter(x, y, rect)
    /\ h_parentEvent("mouseenter", x, y, rect)

PairLeave(x, y, rect) ==
    /\ w_onMouseLeave(x, y, rect)
    /\ h_parentEvent("mouseleave", x, y, rect)

NextPair ==
    \/ \E pin \in BOOLEAN, dur \in Durations : PairMount(pin, dur)
    \/ WrapperStep(w_flush)
    \/ HookStep(h_flushEffects)
    \/ \E e \in Probes : PairEnter(e.x, e.y, e.rect)
    \/ \E e \in Probes : PairLeave(e.x, e.y, e.rect)
    \/ Tick(FrameMs)

SpecPair == Init /\ [][NextPair]_vars

----------------------------------------------------------------------------
(* SpecUnpinned: the lifecycle with pinned off in every render and the     *)
(* default duration: pointer events at the four edges, focus and blur,     *)
(* re-renders that change invert / fillOnTab, frames, unmount of the hook. *)

WPropsUnpinned == WrapperProps({FALSE}, BOOLEAN, BOOLEAN, {"up"}, {"down"})
HPropsUnpinned == HookProps({FALSE})

NextUnpinned ==
    \/ \E p \in WPropsUnpinned : h_life = "new" /\ WrapperStep(w_mount(p))
    \/ \E p \in WPropsUnpinned : WrapperStep(w_rerender(p))
    \/ WrapperStep(w_flush)
    \/ \E e \in Probes : WrapperStep(w_onMouseEnter(e.x, e.y, e.rect))
    \/ \E e \in Probes : WrapperStep(w_onMouseLeave(e.x, e.y, e.rect))
    \/ WrapperStep(w_onFocus)
    \/ WrapperStep(w_onBlur)
    \/ \E p \in HPropsUnpinned :
           w_life = "new" /\ HookStep(h_mount(p, TRUE))
    \/ \E p \in HPropsUnpinned : HookStep(h_rerender(p))
    \/ HookStep(h_unmount)
    \/ HookStep(h_flushEffects)
    \/ \E e \in Probes :
           HookStep(h_parentEvent("mouseenter", e.x, e.y, e.rect))
    \/ \E e \in Probes :
           HookStep(h_parentEvent("mouseleave", e.x, e.y, e.rect))
    \/ Tick(FrameMs)

SpecUnpinned == Init /\ [][NextUnpinned]_vars

----------------------------------------------------------------------------
(* Properties.                                                             *)

\* The step delivers an event of kind k to the wrapper's host element, to
\* the hook's parent element.
w_Delivered(k) == w_last'.seq # w_last.seq /\ w_last'.kind = k
h_Delivered(k) == h_last'.seq # h_last.seq /\ h_last'.kind = k

(* C1: in both variants a pointer-enter received while the filled flag is  *)
(* already true, and a pointer-leave received while it is already false,   *)
(* change nothing: the flag keeps its value, the driver is not called, no  *)
(* timeline is created and viewBox and path are not written.               *)
C1_RepeatedEnterLeaveNoOp ==
    [][/\ (w_Delivered("enter") /\ w_isFilled) =>
              /\ w_isFilled' /\ w_last'.calls = <<>>
              /\ UNCHANGED <<w_timelines, w_viewBox, w_d>>
       /\ (w_Delivered("leave") /\ ~w_isFilled) =>
              /\ ~w_isFilled' /\ w_last'.calls = <<>>
              /\ UNCHANGED <<w_timelines, w_viewBox, w_d>>
       /\ (h_Delivered("enter") /\ h_hovered) =>
              /\ h_hovered' /\ h_last'.calls = <<>>
              /\ UNCHANGED <<h_timelines, h_viewBox, h_d>>
       /\ (h_Delivered("leave") /\ ~h_hovered) =>
              /\ ~h_hovered' /\ h_last'.calls = <<>>
              /\ UNCHANGED <<h_timelines, h_viewBox, h_d>>]_vars

\* The filled flag an event of the given kind leaves behind when its
\* handler ran: set by enter and focus, cleared by leave and blur.
FlagAfter(kind) == kind \in {"enter", "focus"}

\* The last event toggled the filled flag under the usual guard (an
\* enter or focus finds it set or sets it, a leave or blur finds it clear
\* or clears it) and made no driver call.
PinnedEventOk(last, filled) ==
    /\ last.calls = <<>>
    /\ last.edge = "none"
    /\ last.kind # "none" =>
           /\ filled = last.post
           /\ last.handled = 1 => last.post = FlagAfter(last.kind)
           /\ last.handled = 0 => last.post = last.pre

(* C2: with pinned true from mount onward, the mount state is the center   *)
(* viewBox with the square path, every enter / leave (and focus / blur in  *)
(* the wrapper with tab animation on) toggles the filled flag under the    *)
(* usual guard, and the driver is never called: no timeline exists and     *)
(* viewBox and path stay as mounted.                                       *)
C2_PinnedFromMountNeverAnimates ==
    /\ (w_life = "mounted" /\ w_pinnedEver) =>
           /\ w_viewBox = vbCenter /\ w_d = squarePath
           /\ w_timelines = <<>>
           /\ PinnedEventOk(w_last, w_isFilled)
    /\ (h_life = "mounted" /\ h_pinnedEver) =>
           /\ h_viewBox = vbCenter /\ h_d = squarePath
           /\ h_timelines = <<>>
           /\ h_last.handled <= 1
           /\ PinnedEventOk(h_last, h_hovered)

(* C3: in every state in which pinned is true, the overlay is filled and   *)
(* at rest: its viewBox is the center window and no timeline is in flight  *)
(* on it, also when pinned turned true after mount or during a transition. *)
C3_PinnedIsFilledAtRest ==
    /\ (w_life = "mounted" /\ w_props.fillPin) =>
           (w_viewBox = vbCenter /\ w_timelines = <<>>)
    /\ (h_life = "mounted" /\ h_props.pinned) =>
           (h_viewBox = vbCenter /\ h_timelines = <<>>)

\* The transition the non-inverted dispatch plays for an enter at an edge.
EnterAt(edge) ==
    CASE edge = "bottom" -> slideUpIn
      [] edge = "top" -> slideDownIn
      [] edge = "left" -> slideLeftIn
      [] edge = "right" -> slideRightIn

\* The calls c are one Out transition from the center that ends at the
\* offset window the enter transition for the edge starts from.
MirroredExit(c, edge, dur) ==
    /\ Len(c) = 1
    /\ \E tr \in OutTransitions : c[1] = Call(tr, dur)
    /\ c[1].vbFrom = vbCenter
    /\ c[1].vbTo = EnterAt(edge).vbFrom
    /\ c[1].vbTo \in OffsetViewBoxes

\* The handlers the hook has registered on the parent element were
\* created by a render with pinned on.
HandlersPinned == h_listeners # <<>> /\ h_listeners[1].pinned

\* An effective event, one whose handler got past its guard on the filled
\* flag, is dispatched as the non-inverted table says: the wrapper's
\* under pinned off, the hook's when hookCase holds before it.
NonInvertedDispatch(hookCase) ==
    /\ (/\ w_Delivered("enter") /\ w_last'.wrote
        /\ ~w_props.fillPin /\ ~w_props.fillInvert) =>
           /\ w_last'.edge \in Edges
           /\ w_last'.calls =
                  <<Call(EnterAt(w_last'.edge), w_props.fillDuration)>>
           /\ w_last'.edge = "top" =>
                  /\ w_last'.calls[1].vbFrom = vbTop
                  /\ w_last'.calls[1].vbTo = vbCenter
                  /\ w_last'.calls[1].drawPath = convexBottomPath
    /\ (/\ w_Delivered("leave") /\ w_last'.wrote
        /\ ~w_props.fillPin /\ ~w_props.fillInvert) =>
           /\ w_last'.edge \in Edges
           /\ MirroredExit(w_last'.calls, w_last'.edge,
                           w_props.fillDuration)
    /\ (h_Delivered("enter") /\ h_last'.wrote /\ hookCase) =>
           /\ h_last'.edge \in Edges
           /\ h_last'.calls =
                  <<Call(EnterAt(h_last'.edge), h_listeners[1].duration)>>
           /\ h_last'.edge = "top" =>
                  /\ h_last'.calls[1].vbFrom = vbTop
                  /\ h_last'.calls[1].vbTo = vbCenter
                  /\ h_last'.calls[1].drawPath = convexBottomPath
    /\ (h_Delivered("leave") /\ h_last'.wrote /\ hookCase) =>
           /\ h_last'.edge \in Edges
           /\ MirroredExit(h_last'.calls, h_last'.edge,
                           h_listeners[1].duration)

(* C4 as stated: with invert-direction and pinned off, in both variants an *)
(* effective enter at bottom / top / left / right calls slideUpIn /        *)
(* slideDownIn / slideLeftIn / slideRightIn (at top: start top-offset, end *)
(* center, path convexBottom), and an effective leave at an edge calls the *)
(* Out transition that ends at the offset window the enter transition for  *)
(* that edge starts from; pinned is that of the latest render.             *)
C4_DispatchNonInverted ==
    [][NonInvertedDispatch(~h_props.pinned)]_vars

(* C4, amended: the same dispatch, for the events handled by handlers that *)
(* were created under pinned off: in the wrapper those of the latest       *)
(* render, in the hook those the latest run of the effect registered,      *)
(* which after a re-render that changes pinned stay the old ones until the *)
(* effect has run again.                                                   *)
C4_DispatchOfRegisteredHandlers ==
    [][NonInvertedDispatch(~HandlersPinned)]_vars

\* The hook has played the exit at the left edge, which ends at the
\* window slideLeftIn starts from.
C4_Witness ==
    /\ h_life = "mounted" /\ ~h_props.pinned /\ ~HandlersPinned
    /\ h_last.kind = "leave" /\ h_last.edge = "left" /\ h_last.wrote
    /\ h_last.calls = <<Call(slideLeftOut, h_props.duration)>>
    /\ h_timelines # <<>>

Opposite(edge) ==
    CASE edge = "top" -> "bottom"
      [] edge = "bottom" -> "top"
      [] edge = "left" -> "right"
      [] edge = "right" -> "left"

(* C5: in the wrapper, for an enter and a leave whose handler gets past    *)
(* its guard on the filled flag, and for every detected edge, the          *)
(* transition called with invert-direction true is the one called with     *)
(* invert-direction false for the opposite edge, with exactly one          *)
(* exception: a leave at the left edge calls slideLeftOut under both       *)
(* settings, which is not what a leave at the right edge calls with the    *)
(* flag off.                                                               *)
C5_InvertSwapsExceptLeftLeave ==
    [][/\ (/\ w_Delivered("enter") /\ w_last'.wrote
           /\ ~w_props.fillPin /\ w_props.fillInvert) =>
              /\ w_last'.edge \in Edges
              /\ w_last'.calls =
                     <<Call(w_enterTransition(Opposite(w_last'.edge), FALSE),
                            w_props.fillDuration)>>
       /\ (/\ w_Delivered("leave") /\ w_last'.wrote
           /\ ~w_props.fillPin /\ w_props.fillInvert) =>
              /\ w_last'.edge \in Edges
              /\ w_last'.edge # "left" =>
                     w_last'.calls =
                         <<Call(w_leaveTransition(Opposite(w_last'.edge),
                                                  FALSE),
                                w_props.fillDuration)>>
              /\ w_last'.edge = "left" =>
                     w_last'.calls # 
                         <<Call(w_leaveTransition("right", FALSE),
                                w_props.fillDuration)>>
       /\ (/\ w_Delivered("leave") /\ w_last'.wrote
           /\ ~w_props.fillPin /\ w_last'.edge = "left") =>
              w_last'.calls = <<Call(slideLeftOut, w_props.fillDuration)>>
       ]_vars

\* The wrapper, inverted, has played the exit at the left edge.
C5_Witness ==
    /\ w_life = "mounted" /\ w_props.fillInvert /\ ~w_props.fillPin
    /\ w_last.kind = "leave" /\ w_last.edge = "left" /\ w_last.wrote
    /\ w_last.calls = <<Call(slideLeftOut, w_props.fillDuration)>>
    /\ w_timelines # <<>>

\* The distance the detector measures to an edge.
EdgeDistance(edge, x, y, rect) ==
    CASE edge = "top" -> Abs(rect.top - y)
      [] edge = "bottom" -> Abs(rect.bottom - y)
      [] edge = "left" -> Abs(rect.left - x)
      [] edge = "right" -> Abs(rect.right - x)

\* The edge the detector returned for the event is one of the four, no
\* edge is nearer to the pointer, and an edge strictly nearer than the
\* other three is the one returned.
NearestEdge(last) ==
    /\ last.edge \in Edges
    /\ \A e \in Edges :
           EdgeDistance(last.edge, last.x, last.y, last.rect)
               <= EdgeDistance(e, last.x, last.y, last.rect)
    /\ \A e \in Edges :
           (\A f \in Edges \ {e} :
                EdgeDistance(e, last.x, last.y, last.rect)
                    < EdgeDistance(f, last.x, last.y, last.rect))
               => last.edge = e

\* An enter or leave event whose handler got past its guard on the filled
\* flag called the detector and made exactly one driver call, of a named
\* transition.
OneTransition(last) ==
    (last.kind \in {"enter", "leave"} /\ last.wrote) =>
        /\ last.edge \in Edges
        /\ Len(last.calls) = 1
        /\ \E tr \in InTransitions \cup OutTransitions :
               last.calls[1] = Call(tr, last.calls[1].duration)

(* C6 as stated: for every pointer position and rectangle, a zero-size one *)
(* included, the detector returns exactly one of top, bottom, left, right, *)
(* whose distance is the minimum of the four; a pointer strictly nearest   *)
(* to one edge yields that edge.  So every effective enter or leave with   *)
(* pinned off makes exactly one driver call, in both variants; pinned is   *)
(* that of the latest render.                                              *)
C6_DetectorReturnsNearestEdge ==
    /\ w_last.edge # "none" => NearestEdge(w_last)
    /\ h_last.edge # "none" => NearestEdge(h_last)
    /\ (w_life = "mounted" /\ ~w_props.fillPin) => OneTransition(w_last)
    /\ (h_life = "mounted" /\ ~h_props.pinned) => OneTransition(h_last)

(* C6, amended: the detector as stated.  So every effective enter or leave *)
(* handled by handlers that were created with pinned off makes exactly one *)
(* driver call, in both variants: in the wrapper the handlers of the       *)
(* latest render, in the hook those the latest run of the effect           *)
(* registered, which after a re-render that changes pinned stay the old    *)
(* ones until the effect has run again.                                    *)
C6_NearestEdgeOneCallPerHandler ==
    /\ w_last.edge # "none" => NearestEdge(w_last)
    /\ h_last.edge # "none" => NearestEdge(h_last)
    /\ (w_life = "mounted" /\ ~w_props.fillPin) => OneTransition(w_last)
    /\ (h_life = "mounted" /\ ~HandlersPinned) => OneTransition(h_last)

\* The hook has left at a pointer strictly nearest to the right edge of
\* the rectangle that is not square, and made its one call.
C6_Witness ==
    /\ h_life = "mounted" /\ ~h_props.pinned /\ ~HandlersPinned
    /\ h_last.kind = "leave" /\ h_last.edge = "right" /\ h_last.wrote
    /\ h_last.rect = Rect(0, 3, 1, 2)
    /\ \A f \in Edges \ {"right"} :
           EdgeDistance("right", h_last.x, h_last.y, h_last.rect)
               < EdgeDistance(f, h_last.x, h_last.y, h_last.rect)
    /\ Len(h_last.calls) = 1

\* Place of an edge in the order top, bottom, left, right.
Priority(edge) ==
    CASE edge = "top" -> 1
      [] edge = "bottom" -> 2
      [] edge = "left" -> 3
      [] edge = "right" -> 4

\* Among the edges at the minimum distance, the detector returned the
\* first in the order top, bottom, left, right.
FirstOfTied(last) ==
    /\ last.edge \in Edges
    /\ \A e \in Edges :
           (\A f \in Edges :
                EdgeDistance(e, last.x, last.y, last.rect)
                    <= EdgeDistance(f, last.x, last.y, last.rect))
               => Priority(last.edge) <= Priority(e)

C8_FocusUpBlurDown ==
    [][/\ (/\ w_Delivered("focus") /\ ~w_seen
           /\ w_props.fillOnTab /\ ~w_props.fillPin) =>
              /\ w_isFilled'
              /\ w_last'.calls = <<Call(slideUpIn, w_props.fillDuration)>>
              /\ w_timelines' = w_timelines \o w_animation(w_last'.calls)
       /\ (/\ w_Delivered("blur") /\ w_seen
           /\ w_props.fillOnTab /\ ~w_props.fillPin) =>
              /\ ~w_isFilled'
              /\ w_last'.calls = <<Call(slideDownOut, w_props.fillDuration)>>
              /\ w_timelines' = w_timelines \o w_animation(w_last'.calls)
       /\ ((w_Delivered("focus") \/ w_Delivered("blur"))
           /\ ~w_props.fillOnTab) =>
              /\ w_last'.calls = <<>>
              /\ UNCHANGED <<w_isFilled, w_timelines, w_viewBox, w_d>>
       ]_vars

\* The wrapper, inverted and with fillTabEnter "left", has played
\* slideUpIn on focus.
C8_Witness ==
    /\ w_props.fillOnTab /\ ~w_props.fillPin /\ w_props.fillInvert
    /\ w_props.fillTabEnter = "left" /\ w_props.fillTabLeave = "right"
    /\ w_last.kind = "focus" /\ w_last.wrote /\ w_isFilled
    /\ w_last.calls = <<Call(slideUpIn, w_props.fillDuration)>>

\* The In transition a direction word of fillTabEnter names, the Out
\* transition a direction word of fillTabLeave names.
TabEnterTransition(direction) ==
    CASE direction = "up" -> slideUpIn
      [] direction = "down" -> slideDownIn
      [] direction = "left" -> slideLeftIn
      [] direction = "right" -> slideRightIn

TabLeaveTransition(direction) ==
    CASE direction = "up" -> slideUpOut
      [] direction = "down" -> slideDownOut
      [] direction = "left" -> slideLeftOut
      [] direction = "right" -> slideRightOut

(* C9: in the wrapper with tab animation on, fillTabEnter sets the         *)
(* direction of the transition played on focus and fillTabLeave that of    *)
(* the transition played on blur.                                          *)
C9_TabOptionsSetDirection ==
    [][/\ (/\ w_Delivered("focus") /\ ~w_seen
           /\ w_props.fillOnTab /\ ~w_props.fillPin) =>
              w_last'.calls =
                  <<Call(TabEnterTransition(w_props.fillTabEnter),
                         w_props.fillDuration)>>
       /\ (/\ w_Delivered("blur") /\ w_seen
           /\ w_props.fillOnTab /\ ~w_props.fillPin) =>
              w_last'.calls =
                  <<Call(TabLeaveTransition(w_props.fillTabLeave),
                         w_props.fillDuration)>>
       ]_vars

\* The listeners of a type registered on the parent element.
ListenerCount(type) ==
    Cardinality({i \in DOMAIN h_listeners : h_listeners[i].type = type})

(* C10 as stated: in the hook, across mount, pinned changes, re-renders     *)
(* and unmount, exactly one mouseenter and one mouseleave listener are     *)
(* registered while mounted, so no event is handled twice, and none after  *)
(* unmount: from then on, also with a transition in flight, an event runs  *)
(* no handler and changes nothing, and no error is raised.                 *)
C10_OneListenerPairWhileMounted ==
    /\ [](/\ h_life = "mounted" =>
                 /\ ListenerCount("mouseenter") = 1
                 /\ ListenerCount("mouseleave") = 1
                 /\ Len(h_listeners) = 2
          /\ h_life # "mounted" => h_listeners = <<>>
          /\ h_last.handled <= 1
          /\ ~h_error)
    /\ [][/\ ((h_Delivered("enter") \/ h_Delivered("leave"))
              /\ h_life = "mounted") => h_last'.handled = 1
          /\ ((h_Delivered("enter") \/ h_Delivered("leave"))
              /\ h_life = "unmounted") =>
                 /\ h_last'.handled = 0
                 /\ h_last'.calls = <<>>
                 /\ UNCHANGED <<h_hovered, h_timelines, h_viewBox, h_d,
                                h_listeners>>]_vars

(* C10, amended: in the hook, across mount, pinned changes, re-renders and *)
(* unmount, at most one mouseenter and one mouseleave listener are         *)
(* registered at any time, so no event is handled twice.  Once the effect  *)
(* of the latest commit has run, exactly one of each is registered while   *)
(* mounted under a parent element, and none without a parent element or    *)
(* after unmount: from then on, also with a transition in flight, an event *)
(* runs no handler and changes nothing.  No error is raised at any time.   *)
C10_OnePairOnceEffectRan ==
    /\ [](/\ ListenerCount("mouseenter") <= 1
          /\ ListenerCount("mouseleave") <= 1
          /\ h_last.handled <= 1
          /\ ~h_error
          /\ (h_life = "mounted" /\ h_pending = "none" /\ h_hasParent) =>
                 /\ ListenerCount("mouseenter") = 1
                 /\ ListenerCount("mouseleave") = 1
                 /\ Len(h_listeners) = 2
          /\ (h_life = "mounted" /\ h_pending = "none" /\ ~h_hasParent) =>
                 h_listeners = <<>>
          /\ (h_life = "unmounted" /\ h_pending = "none") =>
                 h_listeners = <<>>
          /\ h_life = "new" => h_listeners = <<>>)
    /\ [][/\ ((h_Delivered("enter") \/ h_Delivered("leave"))
              /\ h_life = "mounted" /\ h_pending = "none") =>
                 h_last'.handled = 1
          /\ ((h_Delivered("enter") \/ h_Delivered("leave"))
              /\ h_life = "unmounted" /\ h_pending = "none") =>
                 /\ h_last'.handled = 0
                 /\ h_last'.calls = <<>>
                 /\ UNCHANGED <<h_hovered, h_timelines, h_viewBox, h_d,
                                h_listeners>>]_vars

\* After a pinned change, the unmount and its cleanup, with a transition
\* still in flight, an event reached the parent element and no handler
\* ran.
C10_Witness ==
    /\ h_life = "unmounted" /\ h_pending = "none" /\ h_timelines # <<>>
    /\ h_props.pinned /\ ~h_error
    /\ h_last.kind = "enter" /\ h_last.handled = 0 /\ ~h_hovered
    /\ h_listeners = <<>>

(* C11: the wrapper (invert-direction and tab animation off) and the hook, *)
(* given the same pinned and duration and the same sequence of pointer     *)
(* enter / leave events and frames, go through the same filled-flag        *)
(* values, make the same driver calls, and their overlays carry the same   *)
(* viewBox and path after every step.                                      *)
C11_VariantsEquivalent ==
    (w_life = "mounted" /\ h_life = "mounted") =>
        /\ w_isFilled = h_hovered
        /\ w_last.calls = h_last.calls
        /\ w_played = h_played
        /\ w_viewBox = h_viewBox
        /\ w_d = h_d

\* The timelines in flight on the two overlays.
InFlight ==
    {w_timelines[i] : i \in DOMAIN w_timelines}
        \cup {h_timelines[i] : i \in DOMAIN h_timelines}

\* The tween to the square of a timeline has started: it has read its
\* start value.
SquareTweenStarted(tl) == tl.d2Start # <<>>

(* C12 (as stated): in a transition of duration D the tween to the neutral *)
(* square starts when 70% of D has elapsed, at 350 ms for D = 500 ms.      *)
C12_SquareTweenStartsAtSeventyPercent ==
    \A tl \in InFlight :
        tl.time > 0 =>
            (SquareTweenStarted(tl) <=> 10 * tl.time >= 7 * tl.duration)

(* C12 (amended): in a transition of duration D the tween to the neutral   *)
(* square starts when 30% of D has elapsed, at 150 ms for D = 500 ms: the  *)
(* position '-=70%' is the end of the timeline, D, moved back by 70% of    *)
(* the duration D of the inserted tween.                                   *)
C12_SquareTweenStartsAtThirtyPercent ==
    \A tl \in InFlight :
        tl.time > 0 =>
            (SquareTweenStarted(tl) <=> 10 * tl.time >= 3 * tl.duration)

\* Two transitions of 500 ms in flight on the wrapper: in the older the
\* square tween has started before 350 ms, in the younger, before 150 ms,
\* it has not.
C12_Witness ==
    /\ Len(w_timelines) = 2
    /\ w_timelines[1].duration = DefaultDuration
    /\ w_timelines[2].duration = DefaultDuration
    /\ SquareTweenStarted(w_timelines[1])
    /\ 10 * w_timelines[1].time < 7 * DefaultDuration
    /\ w_timelines[2].time > 0
    /\ ~SquareTweenStarted(w_timelines[2])

\* The table of the eight transitions: start window, end window,
\* directional path.
TransitionTable(name) ==
    CASE name = "slideDownOut" -> <<vbCenter, vbBottom, concaveTopPath>>
      [] name = "slideUpIn" -> <<vbBottom, vbCenter, convexTopPath>>
      [] name = "slideUpOut" -> <<vbCenter, vbTop, concaveBottomPath>>
      [] name = "slideDownIn" -> <<vbTop, vbCenter, convexBottomPath>>
      [] name = "slideLeftIn" -> <<vbLeft, vbCenter, convexRightPath>>
      [] name = "slideRightIn" -> <<vbRight, vbCenter, convexLeftPath>>
      [] name = "slideLeftOut" -> <<vbCenter, vbLeft, concaveRightPath>>
      [] name = "slideRightOut" -> <<vbCenter, vbRight, concaveLeftPath>>

InNames == {"slideUpIn", "slideDownIn", "slideLeftIn", "slideRightIn"}
OutNames == {"slideUpOut", "slideDownOut", "slideLeftOut", "slideRightOut"}

\* The driver invocation c (a call, or the timeline it created) carries
\* the triple of the table for its name.
MatchesTable(c) ==
    /\ c.name \in InNames \cup OutNames
    /\ <<c.vbFrom, c.vbTo, c.drawPath>> = TransitionTable(c.name)
    /\ c.name \in InNames =>
           (c.vbTo = vbCenter /\ c.vbFrom \in OffsetViewBoxes)
    /\ c.name \in OutNames =>
           (c.vbFrom = vbCenter /\ c.vbTo \in OffsetViewBoxes)

(* C13: in both variants every invocation of the driver by one of the      *)
(* eight named transitions carries exactly the (start viewBox, end         *)
(* viewBox, directional path) triple of the table; every In transition     *)
(* ends at the center window and every Out transition starts at it.        *)
C13_TransitionsMatchTable ==
    /\ \A i \in DOMAIN w_last.calls : MatchesTable(w_last.calls[i])
    /\ \A i \in DOMAIN h_last.calls : MatchesTable(h_last.calls[i])
    /\ \A i \in DOMAIN w_timelines : MatchesTable(w_timelines[i])
    /\ \A i \in DOMAIN h_timelines : MatchesTable(h_timelines[i])
    /\ w_played # NoCall => MatchesTable(w_played)
    /\ h_played # NoCall => MatchesTable(h_played)

\* The hook has slideLeftIn and slideRightOut in flight, the second just
\* called.
C13_Witness ==
    /\ Len(h_timelines) = 2
    /\ h_timelines[1].name = "slideLeftIn"
    /\ h_timelines[2].name = "slideRightOut"
    /\ h_played = Call(slideRightOut, h_props.duration)
    /\ h_last.calls = <<h_played>>

\* A timeline has not rendered yet and its tweens have read no start
\* value, or it has rendered and its viewBox tween and its first path
\* tween have both started, the viewBox tween from the start window.
StartsFromStartWindow(tl) ==
    /\ tl.time = 0 =>
           (tl.vbStart = <<>> /\ tl.d1Start = <<>> /\ tl.d2Start = <<>>)
    /\ tl.time > 0 => (tl.vbStart = tl.vbFrom /\ tl.d1Start # <<>>)

\* The step is a frame in which the one timeline in flight, tls[1],
\* advances and stays in flight.
LoneAdvances(tls, tlsNext) ==
    /\ Len(tls) = 1 /\ Len(tlsNext) = 1
    /\ tlsNext[1].time > tls[1].time

\* The step is a frame in which the one timeline in flight, made by the
\* latest call of the driver, completes.
LoneCompletes(tls, tlsNext, played) ==
    /\ Len(tls) = 1 /\ tlsNext = <<>>
    /\ played = Call(tls[1], tls[1].duration)

\* What a frame does with the one timeline in flight: the frame in which
\* its viewBox tween ends leaves the end window, later frames leave the
\* viewBox alone, and the frame in which it completes leaves the square
\* path.
LoneFrames(tls, tlsNext, played, vb, vbNext, dNext) ==
    /\ (LoneAdvances(tls, tlsNext) /\ tls[1].time < tls[1].duration
        /\ tlsNext[1].time >= tls[1].duration) => vbNext = tls[1].vbTo
    /\ (LoneAdvances(tls, tlsNext) /\ tls[1].time >= tls[1].duration) =>
           vbNext = vb
    /\ LoneCompletes(tls, tlsNext, played) => dNext = squarePath

C15_LatestTransitionWins ==
    /\ (w_life = "mounted" /\ w_timelines = <<>> /\ w_played # NoCall) =>
           /\ w_viewBox = w_played.vbTo
           /\ w_d = squarePath
    /\ (h_life = "mounted" /\ h_timelines = <<>> /\ h_played # NoCall) =>
           /\ h_viewBox \in {h_played.vbTo, h_vbProp}
           /\ h_d = squarePath

\* Every call in calls runs over the duration dur.
AllOver(calls, dur) == \A i \in DOMAIN calls : calls[i].duration = dur

(* C16: in both variants a re-render that changes the duration leaves the  *)
(* timelines in flight as they are, and every transition an event starts   *)
(* runs over the duration of the most recent render, with or without a     *)
(* change of pinned in between.                                            *)
C16_EventsUseLatestDuration ==
    [][/\ w_props' # w_props => w_timelines' = w_timelines
       /\ h_props' # h_props => h_timelines' = h_timelines
       /\ (w_Delivered("enter") \/ w_Delivered("leave")) =>
              AllOver(w_last'.calls, w_props.fillDuration)
       /\ (h_Delivered("enter") \/ h_Delivered("leave")) =>
              AllOver(h_last'.calls, h_props.duration)]_vars

\* An overlay with no transition in flight shows the filled flag: the
\* center window exactly when the flag is set, otherwise an offset window
\* (the top-offset one before any transition), and the square path.
RestAgrees(filled, played, viewBox, d) ==
    /\ (viewBox = vbCenter) <=> filled
    /\ ~filled => viewBox \in OffsetViewBoxes
    /\ played = NoCall => viewBox = vbTop
    /\ d = squarePath

(* C17: with pinned off in every render and a fixed duration, after any    *)
(* sequence of enter / leave / focus / blur events and re-renders,         *)
(* whenever no transition is in flight the viewBox is the center window    *)
(* if and only if the filled flag is true, otherwise one of the four       *)
(* offset windows (the top-offset one initially), and the path is the      *)
(* neutral square.                                                         *)
C17_RestStateAgreesWithFlag ==
    /\ (w_life = "mounted" /\ w_timelines = <<>>) =>
           RestAgrees(w_isFilled, w_played, w_viewBox, w_d)
    /\ (h_life = "mounted" /\ h_timelines = <<>>) =>
           RestAgrees(h_hovered, h_played, h_viewBox, h_d)

\* The hook is at rest after an exit at the bottom edge: not hovered, at
\* the bottom-offset window.
C17_Witness ==
    /\ h_life = "mounted" /\ h_timelines = <<>>
    /\ h_played.name = "slideDownOut"
    /\ ~h_hovered /\ h_viewBox = vbBottom /\ h_d = squarePath

\* The transition the hook plays for a leave at an edge.
LeaveAt(edge) ==
    CASE edge = "bottom" -> slideDownOut
      [] edge = "top" -> slideUpOut
      [] edge = "left" -> slideLeftOut
      [] edge = "right" -> slideRightOut

(* C18: in the hook the invert option has no part in the filled flag or    *)
(* in the dispatch: whatever its value, an enter a handler runs for sets   *)
(* the flag and a leave clears it, an effective enter or leave at an edge  *)
(* under handlers created with pinned off calls the one transition of the  *)
(* non-inverted table for that edge (a leave at the left edge              *)
(* slideLeftOut, a leave at the right edge slideRightOut), any other event *)
(* calls nothing, and a re-render that changes only invert leaves the      *)
(* flag, the listeners, the effect, the timelines and the path as they     *)
(* are.                                                                    *)
C18_HookInvertOnlyBlends ==
    [][/\ (h_Delivered("enter") /\ h_last'.handled = 1) =>
              /\ h_hovered'
              /\ h_last'.calls =
                     IF h_hovered \/ HandlersPinned THEN <<>>
                     ELSE <<Call(EnterAt(h_last'.edge),
                                 h_listeners[1].duration)>>
       /\ (h_Delivered("leave") /\ h_last'.handled = 1) =>
              /\ ~h_hovered'
              /\ h_last'.calls =
                     IF ~h_hovered \/ HandlersPinned THEN <<>>
                     ELSE <<Call(LeaveAt(h_last'.edge),
                                 h_listeners[1].duration)>>
       /\ ((h_Delivered("enter") \/ h_Delivered("leave"))
           /\ h_last'.handled = 0) =>
              /\ h_last'.calls = <<>>
              /\ UNCHANGED <<h_hovered, h_timelines>>
       /\ (/\ h_life = "mounted"
           /\ h_props'.invert # h_props.invert
           /\ h_props'.pinned = h_props.pinned
           /\ h_props'.duration = h_props.duration) =>
              UNCHANGED <<h_hovered, h_listeners, h_pending, h_timelines,
                          h_d>>]_vars

\* The hook, with invert on, has played slideRightOut for a leave at the
\* right edge.
C18_Witness ==
    /\ h_life = "mounted" /\ h_props.invert /\ ~h_props.pinned
    /\ h_last.kind = "leave" /\ h_last.edge = "right" /\ ~h_hovered
    /\ h_last.handled = 1 /\ ~HandlersPinned
    /\ h_last.calls = <<Call(slideRightOut, h_props.duration)>>

\* The calls of one event continue the alternation In, Out, In, ...
\* after the latest call before it: at most one call, an In transition
\* after no call or an Out, an Out transition after an In.
Alternates(played, calls) ==
    calls # <<>> =>
        /\ Len(calls) = 1
        /\ played.name \notin InNames => calls[1].name \in InNames
        /\ played.name \in InNames => calls[1].name \in OutNames

(* C19: in the wrapper with pinned off, pointer and keyboard share one     *)
(* filled flag: a focus or an enter received while the flag is set calls   *)
(* nothing, a pointer-leave received while it is set (whether or not the   *)
(* element has focus) clears it and calls an Out transition, and a blur    *)
(* received while it is clear calls nothing.  Across every interleaving    *)
(* of enter / leave / focus / blur the transitions called alternate In,    *)
(* Out, In, Out, starting with In.                                         *)
C19_SharedFlagAlternates ==
    [][/\ ((w_Delivered("focus") \/ w_Delivered("enter")) /\ w_isFilled) =>
              /\ w_isFilled' /\ w_last'.calls = <<>>
              /\ w_timelines' = w_timelines
       /\ (w_Delivered("leave") /\ w_isFilled) =>
              /\ ~w_isFilled'
              /\ Len(w_last'.calls) = 1
              /\ w_last'.calls[1].name \in OutNames
       /\ ((w_Delivered("blur") \/ w_Delivered("leave")) /\ ~w_isFilled) =>
              /\ ~w_isFilled' /\ w_last'.calls = <<>>
              /\ w_timelines' = w_timelines
       /\ w_last'.seq # w_last.seq => Alternates(w_played, w_last'.calls)
       ]_vars

============================================================================
